---- MODULE Spec2Model ----
(***************************************************************************)
(* Jarvis Market Data Service (src/python_service/app.py): the handler of  *)
(* POST /portfolio/ohlcv.csv as a state machine.  One request is served    *)
(* per behaviour: the request is validated, its tickers are fetched one    *)
(* after the other (chart endpoint with retry and backoff, yahoo_fin, or   *)
(* yahoo_fin with the chart endpoint as fallback), the per-ticker frames   *)
(* are merged and sorted, and a response is produced.                      *)
(*                                                                         *)
(* Conventions.  Strings the code inspects character by character (the     *)
(* tickers) are sequences of character codes.  Durations are in tenths of  *)
(* a second.  An optional value (None / NaN) is the empty sequence and a   *)
(* present value v is <<v>>.                                               *)
(***************************************************************************)
EXTENDS Integers, Sequences, FiniteSets, TLC

VARIABLES
    req,           \* the PortfolioRequest body as sent by the client
    ctx,           \* x_api_key header, SERVICE_API_KEY, yahoo_fin import
    pc,            \* position of the handler
    tickers,       \* the handler's normalized ticker list
    t,             \* 1-based position of the ticker being processed
    attempt,       \* _fetch_chart's loop variable
    last_err,      \* _fetch_chart's last_err
    results,       \* the frames the fetches returned (res.df), in order
    frames,        \* the handler's frames list
    failed,        \* the handler's failed list
    sources_used,  \* the handler's sources_used list
    response,      \* the HTTP response, once there is one
    trace          \* history: upstream calls, sleeps and the response, in order

vars == <<req, ctx, pc, tickers, t, attempt, last_err, results, frames,
          failed, sources_used, response, trace>>

----------------------------------------------------------------------------
(* Bounds of the model *)

\* longest ticker list a request carries
MaxLen == 2

\* largest value of the retries field
MaxRetries == 4

----------------------------------------------------------------------------
(* Strings *)

None == <<>>

Some(v) == <<v>>

\* str.upper on one character code
UpperChar(c) == IF c \in 97..122 THEN c - 32 ELSE c

\* str.upper
Upper(s) == [k \in 1..Len(s) |-> UpperChar(s[k])]

\* the characters str.strip removes
IsSpace(c) == c \in {9, 10, 11, 12, 13, 32}

RECURSIVE LStrip(_)
LStrip(s) == IF s # <<>> /\ IsSpace(Head(s)) THEN LStrip(Tail(s)) ELSE s

RECURSIVE RStrip(_)
RStrip(s) ==
    IF s # <<>> /\ IsSpace(s[Len(s)]) THEN RStrip(SubSeq(s, 1, Len(s) - 1)) ELSE s

\* str.strip
Strip(s) == RStrip(LStrip(s))

\* a < b for strings (lexicographic on character codes)
RECURSIVE StrLess(_, _)
StrLess(a, b) ==
    IF b = <<>> THEN FALSE
    ELSE IF a = <<>> THEN TRUE
    ELSE IF Head(a) # Head(b) THEN Head(a) < Head(b)
    ELSE StrLess(Tail(a), Tail(b))

\* [f(x) for x in s if p(x)] for the ticker list of the handler
RECURSIVE NormalizeTickers(_)
NormalizeTickers(raw) ==
    IF raw = <<>> THEN <<>>
    ELSE LET x == Head(raw)
             rest == NormalizeTickers(Tail(raw))
         IN  IF x # <<>> /\ Strip(x) # <<>>
             THEN <<Upper(Strip(x))>> \o rest
             ELSE rest

----------------------------------------------------------------------------
(* Dates.  A date string is the text  f1 sep f2 sep f3 : "2024-01-05" is   *)
(* [sep |-> "-", f |-> <<2024, 1, 5>>], "01/05/2024" is                    *)
(* [sep |-> "/", f |-> <<1, 5, 2024>>].                                    *)

IsYear(n) == n \in 1000..9999

IsMonth(n) == n \in 1..12

IsDay(n) == n \in 1..31

\* variant: any text passes as a date
AnyDateOk(s) == TRUE

\* _to_unix_utc_midnight returns (TRUE) or raises ValueError (FALSE)
ToUnixUtcMidnightOk(s) ==
    IF s.sep = "/"
    THEN IsMonth(s.f[1]) /\ IsDay(s.f[2]) /\ IsYear(s.f[3])
    ELSE IsYear(s.f[1]) /\ IsMonth(s.f[2]) /\ IsDay(s.f[3])

\* _to_mmddyyyy returns (TRUE) or raises ValueError (FALSE): a string with a
\* slash is passed on as it is, anything else must be an ISO date
ToMmddyyyyOk(s) ==
    IF s.sep = "/" THEN TRUE
    ELSE IsYear(s.f[1]) /\ IsMonth(s.f[2]) /\ IsDay(s.f[3])

----------------------------------------------------------------------------
(* Upstream responses.  A chart response is the HTTP status and the parsed *)
(* JSON body: whether chart.result[0] is there, its timestamp list (epoch  *)
(* seconds) and the parallel close and adjclose lists.  A yahoo_fin        *)
(* response is what get_data does: it raises, or returns a table indexed   *)
(* by date with the columns it has.                                        *)

SecondsPerDay == 24 * 60 * 60

\* a JSON value that is no number and not null (a string such as "n/a"); a
\* number is Some(v), null is None
Unparseable == <<0, 0>>

\* pd.to_numeric(x, errors="coerce")
ToNumeric(x) == IF Len(x) = 1 THEN x ELSE None

\* pd.to_numeric(x, errors="coerce").fillna(0).astype("int64")
ToVolume(x) == IF Len(x) = 1 THEN x[1] ELSE 0

ChartHttpError ==
    [status |-> 500, result |-> FALSE, timestamp |-> <<>>, close |-> <<>>,
     adjclose |-> <<>>, open |-> <<>>, volume |-> <<>>]

ChartNoTimestamps ==
    [status |-> 200, result |-> TRUE, timestamp |-> <<>>, close |-> <<>>,
     adjclose |-> <<>>, open |-> <<>>, volume |-> <<>>]

\* two trading days, newest first, and a gap row without a close
ChartTwoDays ==
    [status |-> 200, result |-> TRUE,
     timestamp |-> <<SecondsPerDay, 0, 2 * SecondsPerDay>>,
     close |-> <<Some(11), Some(10), None>>,
     adjclose |-> <<Some(9), Some(8), None>>,
     open |-> <<Some(12), Some(10), None>>,
     volume |-> <<Some(100), Some(200), None>>]

\* two bars of the same UTC day
ChartSameDay ==
    [status |-> 200, result |-> TRUE,
     timestamp |-> <<3600, 0>>,
     close |-> <<Some(21), Some(20)>>,
     adjclose |-> <<Some(21), None>>,
     open |-> <<None, Some(20)>>,
     volume |-> <<None, Some(300)>>]

\* only a gap row: every close is null
ChartOnlyGap ==
    [status |-> 200, result |-> TRUE,
     timestamp |-> <<0>>,
     close |-> <<None>>,
     adjclose |-> <<None>>,
     open |-> <<None>>,
     volume |-> <<None>>]

\* values that are not numbers: a close on the first day, an open, an
\* adjclose and a volume
ChartNotNumbers ==
    [status |-> 200, result |-> TRUE,
     timestamp |-> <<0, SecondsPerDay>>,
     close |-> <<Unparseable, Some(40)>>,
     adjclose |-> <<Some(39), Unparseable>>,
     open |-> <<Some(41), Unparseable>>,
     volume |-> <<Some(400), Unparseable>>]

ChartResponses ==
    {ChartHttpError, ChartNoTimestamps, ChartTwoDays, ChartSameDay, ChartOnlyGap,
     ChartNotNumbers}

AllColumns == {"open", "high", "low", "close", "adjclose", "volume"}

TabularRaises ==
    [raises |-> TRUE, index |-> <<>>, columns |-> AllColumns, close |-> <<>>,
     adjclose |-> <<>>, open |-> <<>>, volume |-> <<>>]

TabularEmpty ==
    [raises |-> FALSE, index |-> <<>>, columns |-> AllColumns, close |-> <<>>,
     adjclose |-> <<>>, open |-> <<>>, volume |-> <<>>]

TabularNoAdjclose ==
    [raises |-> FALSE, index |-> <<0>>, columns |-> AllColumns \ {"adjclose"},
     close |-> <<Some(30)>>, adjclose |-> <<None>>, open |-> <<Some(30)>>,
     volume |-> <<Some(500)>>]

TabularTwoDays ==
    [raises |-> FALSE, index |-> <<SecondsPerDay, 0>>, columns |-> AllColumns,
     close |-> <<Some(31), Some(30)>>, adjclose |-> <<Some(29), Some(28)>>,
     open |-> <<Some(30), Some(29)>>, volume |-> <<Some(500), None>>]

TabularResponses == {TabularRaises, TabularEmpty, TabularNoAdjclose, TabularTwoDays}

----------------------------------------------------------------------------
(* Frames: a DataFrame is the sequence of its rows *)

\* strftime("%Y-%m-%d") of a UTC timestamp: the day, which orders as the text does
DateOf(ts) == ts \div SecondsPerDay

\* the frame _fetch_chart builds from a response with timestamps, after
\* df.dropna(subset=["close"]) and then the numeric casts
ChartFrame(ticker, resp) ==
    LET row(k) == [datetime |-> DateOf(resp.timestamp[k]),
                   ticker |-> Upper(ticker),
                   open |-> resp.open[k],
                   close |-> resp.close[k],
                   adjclose |-> resp.adjclose[k],
                   volume |-> resp.volume[k]]
        all == [k \in 1..Len(resp.timestamp) |-> row(k)]
        HasClose(r) == r.close # None
        kept == SelectSeq(all, HasClose)
    IN  [k \in 1..Len(kept) |->
            [kept[k] EXCEPT !.open = ToNumeric(@), !.close = ToNumeric(@),
                            !.adjclose = ToNumeric(@), !.volume = ToVolume(@)]]

\* the body of one attempt of _fetch_chart: the error it raises, or the frame
ChartParse(ticker, resp) ==
    IF resp.status # 200
    THEN [ok |-> FALSE, err |-> "HTTP error", df |-> <<>>]
    ELSE IF ~resp.result
    THEN [ok |-> FALSE, err |-> "No result in chart response", df |-> <<>>]
    ELSE IF resp.timestamp = <<>>
    THEN [ok |-> FALSE, err |-> "No timestamps returned", df |-> <<>>]
    ELSE [ok |-> TRUE, err |-> "", df |-> ChartFrame(ticker, resp)]

\* _fetch_yahoo_fin after get_data returned or raised
YahooFinParse(ticker, resp) ==
    IF resp.raises
    THEN [ok |-> FALSE, err |-> "get_data raised", df |-> <<>>]
    ELSE IF resp.index = <<>>
    THEN [ok |-> FALSE, err |-> "No data returned from yahoo_fin.get_data", df |-> <<>>]
    ELSE IF AllColumns \ resp.columns # {}
    THEN [ok |-> FALSE, err |-> "Missing columns from yahoo_fin", df |-> <<>>]
    ELSE [ok |-> TRUE, err |-> "",
          df |-> [k \in 1..Len(resp.index) |->
                    [datetime |-> DateOf(resp.index[k]),
                     ticker |-> Upper(ticker),
                     open |-> resp.open[k],
                     close |-> resp.close[k],
                     adjclose |-> resp.adjclose[k],
                     volume |-> ToVolume(resp.volume[k])]]]

----------------------------------------------------------------------------
(* Per-ticker transforms and the merge *)

Indices(s) == 1..Len(s)

\* the orders of df that are ascending in datetime.  sort_values(["datetime"])
\* sorts with the default kind, quicksort, which leaves the order of rows of
\* equal datetime open
SortedByDatetime(df) ==
    LET perms == {p \in [Indices(df) -> Indices(df)] :
                     \A a, b \in Indices(df) : a # b => p[a] # p[b]}
        sorted(p) == \A a, b \in Indices(df) :
                        a < b => df[p[a]].datetime <= df[p[b]].datetime
    IN  {[k \in Indices(df) |-> df[p[k]]] : p \in {q \in perms : sorted(q)}}

\* df["close"] = df["adjclose"] when requested (both sources deliver the column)
SubstituteClose(r, df) ==
    IF r.use_adjclose_as_close
    THEN [k \in Indices(df) |-> [df[k] EXCEPT !.close = df[k].adjclose]]
    ELSE df

\* fillna(method="pad"): a null takes the last value before it
RECURSIVE Pad(_)
Pad(s) ==
    IF Len(s) <= 1 THEN s
    ELSE LET front == Pad(SubSeq(s, 1, Len(s) - 1))
         IN  Append(front, IF s[Len(s)] = None THEN front[Len(front)] ELSE s[Len(s)])

\* Series.pct_change(): x[k] / x[k-1] - 1 as the fraction
\* <<x[k] - x[k-1], x[k-1]>>, null where a term is null.  pads: the pandas
\* in use fills nulls forward first (the default before pandas 3)
PctChange(xs, pads) ==
    LET ys == IF pads THEN Pad(xs) ELSE xs
    IN  [k \in 1..Len(xs) |->
            IF k = 1 \/ ys[k] = None \/ ys[k - 1] = None THEN None
            ELSE Some(<<ys[k][1] - ys[k - 1][1], ys[k - 1][1]>>)]

\* df["ret"] = df["close"].pct_change()
WithReturns(df, pads) ==
    LET ret == PctChange([k \in 1..Len(df) |-> df[k].close], pads)
    IN  [k \in 1..Len(df) |->
            [datetime |-> df[k].datetime, ticker |-> df[k].ticker,
             open |-> df[k].open, close |-> df[k].close,
             adjclose |-> df[k].adjclose, volume |-> df[k].volume,
             ret |-> ret[k]]]

\* variant: rows left without a close by the substitution are dropped
ProcessedFramesWithoutGaps(r, df) ==
    LET HasClose(row) == row.close # None
        kept == SelectSeq(SubstituteClose(r, df), HasClose)
    IN  IF r.include_returns
        THEN {WithReturns(sorted, ctx.pct_change_pads) :
                 sorted \in SortedByDatetime(kept)}
        ELSE {kept}

\* what the handler may append to frames for a fetched frame
ProcessedFrames(r, df) ==
    IF r.include_returns
    THEN {WithReturns(sorted, ctx.pct_change_pads) :
             sorted \in SortedByDatetime(SubstituteClose(r, df))}
    ELSE {SubstituteClose(r, df)}

\* pd.concat(frames, ignore_index=True): rows in order, labelled 0, 1, ...
RECURSIVE Flatten(_)
Flatten(fs) == IF fs = <<>> THEN <<>> ELSE Head(fs) \o Flatten(Tail(fs))

Concat(fs) ==
    LET rows == Flatten(fs)
    IN  [k \in Indices(rows) |-> [idx |-> k - 1] @@ rows[k]]

\* variant: sort_values(["ticker"]) only
KeyLessTickerOnly(a, b) == StrLess(a.ticker, b.ticker)

\* the sort key ["ticker", "datetime"]: a's key is strictly below b's
KeyLess(a, b) ==
    \/ StrLess(a.ticker, b.ticker)
    \/ a.ticker = b.ticker /\ a.datetime < b.datetime

\* merging two sorted runs; on equal keys the left run's row goes first
RECURSIVE Merge(_, _)
Merge(a, b) ==
    IF a = <<>> THEN b
    ELSE IF b = <<>> THEN a
    ELSE IF KeyLess(Head(b), Head(a))
    THEN <<Head(b)>> \o Merge(a, Tail(b))
    ELSE <<Head(a)>> \o Merge(Tail(a), b)

\* sort_values(["ticker", "datetime"], kind="mergesort")
RECURSIVE MergeSort(_)
MergeSort(s) ==
    IF Len(s) <= 1 THEN s
    ELSE LET h == Len(s) \div 2
         IN  Merge(MergeSort(SubSeq(s, 1, h)), MergeSort(SubSeq(s, h + 1, Len(s))))

\* the table the CSV is written from
MergedTable(fs) == MergeSort(Concat(fs))

----------------------------------------------------------------------------
(* Requests *)

ALLOWED_INTERVALS == {"1d", "1wk", "1mo"}

\* what the request model accepts for interval and fetch_mode
IntervalLiteral == {"1d", "1wk", "1mo"}

FetchModeLiteral == {"chart", "yahoo_fin", "auto"}

\* the request body passes the PortfolioRequest model
SchemaValid(r) ==
    /\ Len(r.tickers) >= 1
    /\ r.interval \in IntervalLiteral
    /\ r.fetch_mode \in FetchModeLiteral

\* _require_api_key lets the request through
RequireApiKeyOk(c) ==
    c.SERVICE_API_KEY = None \/ c.x_api_key = c.SERVICE_API_KEY

\* the requests and process contexts the model serves.  Tickers: "B", "a",
\* " A" and the blank " "
RawTickers == {<<66>>, <<97>>, <<32, 65>>}

Blank == <<32>>

IsoDate == [sep |-> "-", f |-> <<2024, 1, 5>>]

SlashDate == [sep |-> "/", f |-> <<1, 5, 2024>>]

\* "2024/01/05" and "01-05-2024": neither accepted format
SlashYmdDate == [sep |-> "/", f |-> <<2024, 1, 5>>]

DashMdyDate == [sep |-> "-", f |-> <<1, 5, 2024>>]

ListsOver(S, lo, hi) == UNION {[1..n -> S] : n \in lo..hi}

RetriesSet == (0 - 1)..MaxRetries

\* the field defaults of PortfolioRequest, with dates and tickers filled in
DefaultRequest ==
    [batch_id |-> None, portfolio_id |-> None, tickers |-> <<<<66>>>>,
     start_date |-> IsoDate, end_date |-> IsoDate, interval |-> "1d",
     fetch_mode |-> "chart", use_adjclose_as_close |-> TRUE,
     include_adjclose_column |-> TRUE, include_returns |-> TRUE,
     strict |-> TRUE, max_tickers |-> 50, sleep_seconds |-> 2, retries |-> 3,
     backoff_base_seconds |-> 5]

DefaultContext ==
    [x_api_key |-> None, SERVICE_API_KEY |-> None, yahoo_fin_get_data |-> TRUE,
     feed |-> "numbers", pct_change_pads |-> TRUE]

\* the chart bodies the upstream can answer with: a feed of numbers and
\* nulls, or one that also holds values that are not numbers
ChartBodies(c) ==
    IF c.feed = "numbers" THEN ChartResponses \ {ChartNotNumbers}
    ELSE ChartResponses

\* fetch policy: every ticker list, mode and failure policy
PolicyInputs ==
    {[req |-> [DefaultRequest EXCEPT !.tickers = ts, !.fetch_mode = m,
                                     !.strict = s, !.retries = n],
      ctx |-> DefaultContext] :
        ts \in ListsOver(RawTickers, 1, MaxLen), m \in FetchModeLiteral,
        s \in BOOLEAN, n \in {1}}

\* retrying: every retry count and backoff base, one ticker and two
RetryInputs ==
    {[req |-> [DefaultRequest EXCEPT !.tickers = ts, !.fetch_mode = m,
                                     !.strict = s, !.retries = n,
                                     !.backoff_base_seconds = b],
      ctx |-> DefaultContext] :
        ts \in {<<<<66>>>>, <<<<66>>, <<97>>>>}, m \in FetchModeLiteral,
        s \in BOOLEAN, n \in RetriesSet, b \in {0, 1, 5}}

\* throttling and output flags
KnobInputs ==
    {[req |-> [DefaultRequest EXCEPT !.tickers = ts, !.fetch_mode = m,
                                     !.strict = s, !.sleep_seconds = z,
                                     !.include_returns = ret,
                                     !.use_adjclose_as_close = adj,
                                     !.retries = 1],
      ctx |-> DefaultContext] :
        ts \in {<<<<66>>, <<97>>>>, <<<<97>>, <<32, 65>>, <<66>>>>},
        m \in FetchModeLiteral, s \in BOOLEAN, z \in {0 - 1, 0, 2},
        ret \in BOOLEAN, adj \in BOOLEAN}

\* validation: blank and missing tickers, the ticker bound, the interval,
\* the API key
ValidationInputs ==
    {[req |-> [DefaultRequest EXCEPT !.tickers = ts, !.interval = i,
                                     !.max_tickers = mx, !.retries = 1],
      ctx |-> [DefaultContext EXCEPT !.x_api_key = k,
                                     !.SERVICE_API_KEY = e]] :
        ts \in ListsOver(RawTickers \cup {Blank}, 0, MaxLen),
        i \in {"1d", "1wk", "5m"}, mx \in {0, 1, 50},
        k \in {None, Some("key")}, e \in {None, Some("key"), Some("other")}}

\* dates in and out of the accepted formats, yahoo_fin importable or not
DateInputs ==
    {[req |-> [DefaultRequest EXCEPT !.start_date = sd, !.end_date = ed,
                                     !.fetch_mode = m, !.strict = s,
                                     !.tickers = <<<<66>>, <<97>>>>,
                                     !.retries = 2],
      ctx |-> [DefaultContext EXCEPT !.yahoo_fin_get_data = y]] :
        sd \in {IsoDate, SlashDate, SlashYmdDate, DashMdyDate},
        ed \in {IsoDate, SlashYmdDate},
        m \in FetchModeLiteral, s \in BOOLEAN, y \in BOOLEAN}

\* no attempt allowed (retries <= 0), with dates that parse and that do not
NoAttemptInputs ==
    {[req |-> [DefaultRequest EXCEPT !.tickers = <<<<66>>, <<97>>>>,
                                     !.fetch_mode = m, !.strict = s,
                                     !.retries = n, !.start_date = sd],
      ctx |-> DefaultContext] :
        m \in {"chart", "auto"}, s \in BOOLEAN, n \in {0 - 1, 0},
        sd \in {IsoDate, DashMdyDate}}

\* identifiers and column flags: an id given ("b", "p"), omitted, or blank
ColumnInputs ==
    {[req |-> [DefaultRequest EXCEPT !.batch_id = b, !.portfolio_id = p,
                                     !.include_adjclose_column = adj,
                                     !.include_returns = ret,
                                     !.fetch_mode = m, !.strict = FALSE,
                                     !.retries = 1],
      ctx |-> DefaultContext] :
        b \in {None, Some(<<98>>), Some(<<32>>)},
        p \in {None, Some(<<112>>), Some(<<32>>)},
        adj \in BOOLEAN, ret \in BOOLEAN, m \in {"chart", "yahoo_fin"}}

\* an upstream feed with values that are not numbers, and either pandas
FeedInputs ==
    {[req |-> [DefaultRequest EXCEPT !.tickers = ts, !.fetch_mode = m,
                                     !.use_adjclose_as_close = adj,
                                     !.include_returns = ret,
                                     !.strict = FALSE, !.retries = 1],
      ctx |-> [DefaultContext EXCEPT !.feed = "any", !.pct_change_pads = pads]] :
        ts \in {<<<<66>>>>, <<<<66>>, <<97>>>>}, m \in {"chart", "auto"},
        adj \in BOOLEAN, ret \in BOOLEAN, pads \in BOOLEAN}

Inputs ==
    PolicyInputs \cup RetryInputs \cup KnobInputs \cup ValidationInputs
        \cup DateInputs \cup ColumnInputs \cup FeedInputs \cup NoAttemptInputs

----------------------------------------------------------------------------
(* State *)

\* an entry of the history: what happened, for which ticker position (0: the
\* request), its number (attempt, seconds, status, list index) and whether it
\* went well
Event(op, pos, n, ok) == [op |-> op, t |-> pos, n |-> n, ok |-> ok]

Failure(msg, cause) == [msg |-> msg, cause |-> cause]

Resp(status, kind, table, header, detail) ==
    [status |-> status, kind |-> kind, table |-> table, columns |-> <<>>,
     failed_tickers |-> header, data_sources |-> {}, detail |-> detail]

NoResponse == Resp(0, "none", <<>>, None, <<>>)

Init ==
    /\ \E in \in Inputs : req = in.req /\ ctx = in.ctx
    /\ pc = "start"
    /\ tickers = <<>>
    /\ t = 0
    /\ attempt = 0
    /\ last_err = "None"
    /\ results = <<>>
    /\ frames = <<>>
    /\ failed = <<>>
    /\ sources_used = <<>>
    /\ response = NoResponse
    /\ trace = <<>>

----------------------------------------------------------------------------
(* The handler *)

\* variant: the handler without its max_tickers check
ValidationWithoutLimit(r, c) ==
    IF ~SchemaValid(r) THEN 422
    ELSE IF ~RequireApiKeyOk(c) THEN 401
    ELSE IF r.interval \notin ALLOWED_INTERVALS THEN 400
    ELSE IF NormalizeTickers(r.tickers) = <<>> THEN 400
    ELSE 0

\* the outcome of everything before the ticker loop: the status of the
\* rejection, or 0 when the request reaches the loop
ValidationStatus(r, c) ==
    IF ~SchemaValid(r) THEN 422
    ELSE IF ~RequireApiKeyOk(c) THEN 401
    ELSE IF r.interval \notin ALLOWED_INTERVALS THEN 400
    ELSE IF NormalizeTickers(r.tickers) = <<>> THEN 400
    ELSE IF Len(NormalizeTickers(r.tickers)) > r.max_tickers THEN 400
    ELSE 0

RejectionKind(status) ==
    IF status = 422 THEN "schema"
    ELSE IF status = 401 THEN "api_key"
    ELSE "validation"

\* the request arrives: schema validation, API key check, handler validation
HandleRequest ==
    /\ pc = "start"
    /\ LET status == ValidationStatus(req, ctx)
       IN  IF status = 0
           THEN /\ tickers' = NormalizeTickers(req.tickers)
                /\ pc' = "loop"
                /\ UNCHANGED <<response, trace>>
           ELSE /\ pc' = "done"
                /\ response' = Resp(status, RejectionKind(status), <<>>, None, <<>>)
                /\ trace' = Append(trace, Event("respond", 0, status, FALSE))
                /\ UNCHANGED tickers
    /\ UNCHANGED <<req, ctx, t, attempt, last_err, results, frames, failed,
                   sources_used>>

\* variant: every mode starts with yahoo_fin
FirstFetchAlwaysTabular(r) == "yahoo_fin"

\* which fetch the loop body starts with
FirstFetch(r) == IF r.fetch_mode = "chart" THEN "chart" ELSE "yahoo_fin"

\* for t in tickers: the next ticker's processing starts
NextTicker ==
    /\ pc = "loop"
    /\ t < Len(tickers)
    /\ t' = t + 1
    /\ pc' = FirstFetch(req)
    /\ UNCHANGED <<req, ctx, tickers, attempt, last_err, results, frames,
                   failed, sources_used, response, trace>>

\* variant: the throttle sleeps between tickers only, not after the last one
ThrottledBetween(r, pos, evs) ==
    IF r.sleep_seconds > 0 /\ pos < Len(NormalizeTickers(r.tickers))
    THEN Append(evs, Event("throttle", pos, r.sleep_seconds, TRUE))
    ELSE evs

\* the finally clause: the events so far, then the throttling sleep if any
Throttled(r, pos, evs) ==
    IF r.sleep_seconds > 0
    THEN Append(evs, Event("throttle", pos, r.sleep_seconds, TRUE))
    ELSE evs

\* variant: strict is ignored
ContinuesOnFailure(r) == FALSE

\* the handler aborts the request on a failed ticker
AbortsOnFailure(r) == r.strict

\* the try body ran through: the fetched frame is processed and kept, then
\* the finally clause
IterationSucceeds(evs, df, source) ==
    /\ results' = Append(results, df)
    /\ \E processed \in ProcessedFrames(req, df) : frames' = Append(frames, processed)
    /\ sources_used' = Append(sources_used, source)
    /\ trace' = trace \o Throttled(req, t,
                            Append(evs, Event("keep", t, Len(frames) + 1, TRUE)))
    /\ pc' = "loop"
    /\ UNCHANGED <<failed, response>>

\* variant: the newest failure is put at the head of failed
IterationFailsNewestFirst(evs, err) ==
    /\ failed' = <<<<tickers[t], err>>>> \o failed
    /\ LET caught == Append(evs, Event("except", t, Len(failed) + 1, FALSE))
       IN  IF AbortsOnFailure(req)
           THEN /\ pc' = "done"
                /\ response' = Resp(502, "strict_abort", <<>>, None,
                                    <<<<tickers[t], err>>>>)
                /\ trace' = trace \o Append(Throttled(req, t, caught),
                                            Event("respond", 0, 502, FALSE))
           ELSE /\ pc' = "loop"
                /\ trace' = trace \o Throttled(req, t, caught)
                /\ UNCHANGED response
    /\ UNCHANGED <<results, frames, sources_used>>

\* the except clause: the failure is recorded and, in strict mode, the request
\* ends with 502 once the finally clause has run
IterationFails(evs, err) ==
    /\ failed' = Append(failed, <<tickers[t], err>>)
    /\ LET caught == Append(evs, Event("except", t, Len(failed) + 1, FALSE))
       IN  IF AbortsOnFailure(req)
           THEN /\ pc' = "done"
                /\ response' = Resp(502, "strict_abort", <<>>, None,
                                    <<<<tickers[t], err>>>>)
                /\ trace' = trace \o Append(Throttled(req, t, caught),
                                            Event("respond", 0, 502, FALSE))
           ELSE /\ pc' = "loop"
                /\ trace' = trace \o Throttled(req, t, caught)
                /\ UNCHANGED response
    /\ UNCHANGED <<results, frames, sources_used>>

\* variant: auto mode without the fallback to the chart endpoint
YahooFinFailsWithoutFallback(evs, err) == IterationFails(evs, err)

\* _fetch_yahoo_fin raised: auto mode goes on to the chart endpoint
YahooFinFails(evs, err) ==
    IF req.fetch_mode = "auto"
    THEN /\ pc' = "chart"
         /\ trace' = trace \o evs
         /\ UNCHANGED <<results, frames, failed, sources_used, response>>
    ELSE IterationFails(evs, err)

\* _fetch_yahoo_fin for the current ticker, and the rest of the loop body when
\* it decides the ticker
FetchYahooFin ==
    /\ pc = "yahoo_fin"
    /\ LET called == <<Event("yahoo_fin", t, 0, TRUE)>>
           asked(ok) == Append(called, Event("get_data", t, 0, ok))
       IN  IF ~ctx.yahoo_fin_get_data
           THEN YahooFinFails(called, Failure("yahoo_fin is not available", ""))
           ELSE IF ~(ToMmddyyyyOk(req.start_date) /\ ToMmddyyyyOk(req.end_date))
           THEN YahooFinFails(called, Failure("Invalid isoformat string", ""))
           ELSE \E resp \in TabularResponses :
                   LET res == YahooFinParse(tickers[t], resp)
                   IN  IF res.ok
                       THEN IterationSucceeds(asked(TRUE), res.df, "yahoo_fin")
                       ELSE YahooFinFails(asked(FALSE), Failure(res.err, ""))
    /\ UNCHANGED <<req, ctx, tickers, t, attempt, last_err>>

\* variant: the loop body runs once whatever retries is
HasAttemptAlways(r, k) == TRUE

\* variant: a loop that tests its bound after the first pass
HasAttemptAfterFirst(r, k) == k = 0 \/ (0 < k /\ k < r.retries)

\* for attempt in range(retries): there is an attempt numbered k
HasAttempt(r, k) == 0 <= k /\ k < r.retries

\* _fetch_chart up to its retry loop: the dates are converted, last_err is None
FetchChartBegin ==
    /\ pc = "chart"
    /\ LET called == <<Event("chart", t, 0, TRUE)>>
       IN  IF ~(ToUnixUtcMidnightOk(req.start_date)
                /\ ToUnixUtcMidnightOk(req.end_date))
           THEN /\ IterationFails(called, Failure("time data does not match format", ""))
                /\ UNCHANGED <<attempt, last_err>>
           ELSE IF ~HasAttempt(req, 0)
           THEN /\ last_err' = "None"
                /\ IterationFails(called, Failure("chart fetch failed", last_err'))
                /\ UNCHANGED attempt
           ELSE /\ pc' = "attempt"
                /\ attempt' = 0
                /\ last_err' = "None"
                /\ trace' = trace \o called
                /\ UNCHANGED <<results, frames, failed, sources_used, response>>
    /\ UNCHANGED <<req, ctx, tickers, t>>

\* variant: one more attempt than retries
RetriesAfterInclusive(r, k) == k < r.retries

\* variant: a backoff that grows linearly
BackoffLinear(r, k) == r.backoff_base_seconds * (k + 1)

\* a failed attempt k is followed by a sleep and another attempt
RetriesAfter(r, k) == k < r.retries - 1

RECURSIVE Pow2(_)
Pow2(k) == IF k <= 0 THEN 1 ELSE 2 * Pow2(k - 1)

\* backoff_base_seconds * (2**attempt)
BackoffSeconds(r, k) == r.backoff_base_seconds * Pow2(k)

\* one attempt of _fetch_chart's loop: the upstream call, its parsing, and
\* what follows (return and the rest of the loop body, backoff, or raise)
ChartAttempt ==
    /\ pc = "attempt"
    /\ \E resp \in ChartBodies(ctx) :
          LET res == ChartParse(tickers[t], resp)
              got == <<Event("get", t, attempt, res.ok)>>
          IN  IF res.ok
              THEN /\ IterationSucceeds(got, res.df, "chart")
                   /\ UNCHANGED <<attempt, last_err>>
              ELSE IF RetriesAfter(req, attempt)
              THEN /\ last_err' = res.err
                   /\ attempt' = attempt + 1
                   /\ trace' = trace \o Append(got,
                                   Event("backoff", t, BackoffSeconds(req, attempt), TRUE))
                   /\ UNCHANGED <<pc, results, frames, failed, sources_used,
                                  response>>
              ELSE /\ last_err' = res.err
                   /\ IterationFails(got, Failure("chart fetch failed", last_err'))
                   /\ UNCHANGED attempt
    /\ UNCHANGED <<req, ctx, tickers, t>>

\* batch_id = (req.batch_id or str(uuid.uuid4())).strip(); "u" stands for the
\* generated UUID, <<>> is the empty string
Uuid == <<117>>

BatchId(r) ==
    Strip(IF r.batch_id = None \/ r.batch_id = Some(<<>>) THEN Uuid
          ELSE r.batch_id[1])

\* portfolio_id = (req.portfolio_id or "").strip() or None; <<>> is None
PortfolioId(r) ==
    IF r.portfolio_id = None THEN <<>> ELSE Strip(r.portfolio_id[1])

\* the columns of every fetched frame, from either source
FetchedColumns ==
    {"datetime", "open", "high", "low", "close", "volume", "adjclose",
     "ticker", "openinterest"}

\* merged.columns before the identifier columns are inserted
MergedColumns(r) ==
    FetchedColumns \cup (IF r.include_returns THEN {"ret"} ELSE {})

base_cols ==
    <<"datetime", "ticker", "open", "high", "low", "close", "volume",
      "openinterest">>

\* l.insert(l.index(x) + 1, y)
InsertAfter(l, x, y) ==
    LET i == CHOOSE k \in Indices(l) : l[k] = x /\ \A j \in 1..(k - 1) : l[j] # x
    IN  SubSeq(l, 1, i) \o <<y>> \o SubSeq(l, i + 1, Len(l))

\* variant: the portfolio branch rebuilds the list without adjclose
OutColsWithoutReAdd(r, cols) ==
    LET adj(l) == IF r.include_adjclose_column /\ "adjclose" \in cols
                  THEN InsertAfter(l, "close", "adjclose") ELSE l
        ret(l) == IF r.include_returns /\ "ret" \in cols
                  THEN Append(l, "ret") ELSE l
        batch == IF BatchId(r) # <<>> THEN <<"batch_id">> ELSE <<>>
    IN  IF PortfolioId(r) # <<>>
        THEN ret(batch \o <<"portfolio_id">> \o base_cols)
        ELSE batch \o ret(adj(base_cols))

\* out_cols as the handler composes it from the flags and merged.columns
OutCols(r, cols) ==
    LET adj(l) == IF r.include_adjclose_column /\ "adjclose" \in cols
                  THEN InsertAfter(l, "close", "adjclose") ELSE l
        ret(l) == IF r.include_returns /\ "ret" \in cols
                  THEN Append(l, "ret") ELSE l
        batch == IF BatchId(r) # <<>> THEN <<"batch_id">> ELSE <<>>
        merged == cols \cup (IF BatchId(r) # <<>> THEN {"batch_id"} ELSE {})
                       \cup (IF PortfolioId(r) # <<>> THEN {"portfolio_id"} ELSE {})
        out == IF PortfolioId(r) # <<>>
               THEN ret(adj(batch \o <<"portfolio_id">> \o base_cols))
               ELSE batch \o ret(adj(base_cols))
        Exists(c) == c \in merged
    IN  SelectSeq(out, Exists)

\* the X-Failed-Tickers header: absent, or the failed tickers in order
FailedHeader(fl) ==
    IF fl = <<>> THEN None ELSE Some([k \in Indices(fl) |-> fl[k][1]])

\* variant: no check for an empty frames list
EmptyResultAllowed(fs) == FALSE

\* if not frames
AllTickersFailed(fs) == fs = <<>>

\* after the loop: 502 when no frame was collected, else the merged CSV
Respond ==
    /\ pc = "loop"
    /\ t = Len(tickers)
    /\ pc' = "done"
    /\ IF AllTickersFailed(frames)
       THEN /\ response' = Resp(502, "all_failed", <<>>, None, failed)
            /\ trace' = Append(trace, Event("respond", 0, 502, FALSE))
       ELSE /\ response' = [Resp(200, "csv", MergedTable(frames),
                                 FailedHeader(failed), <<>>)
                            EXCEPT !.data_sources =
                                      {sources_used[k] : k \in Indices(sources_used)},
                                   !.columns = OutCols(req, MergedColumns(req))]
            /\ trace' = Append(trace, Event("respond", 0, 200, TRUE))
    /\ UNCHANGED <<req, ctx, tickers, t, attempt, last_err, results, frames,
                   failed, sources_used>>

Next ==
    \/ HandleRequest
    \/ NextTicker
    \/ FetchYahooFin
    \/ FetchChartBegin
    \/ ChartAttempt
    \/ Respond

Spec == Init /\ [][Next]_vars

\* the requests that decide how long the handler runs: retry counts from
\* negative up, every mode and failure policy, and the rejections
LiveInputs ==
    {[req |-> [DefaultRequest EXCEPT !.tickers = ts, !.fetch_mode = m,
                                     !.strict = s, !.retries = n],
      ctx |-> DefaultContext] :
        ts \in {<<<<66>>>>, <<<<66>>, <<97>>>>}, m \in FetchModeLiteral,
        s \in BOOLEAN, n \in (0 - 1)..2}
    \cup
    {[req |-> [DefaultRequest EXCEPT !.tickers = ts, !.interval = i,
                                     !.max_tickers = mx, !.retries = 1],
      ctx |-> [DefaultContext EXCEPT !.SERVICE_API_KEY = e]] :
        ts \in {<<>>, <<Blank>>, <<<<66>>, <<97>>>>}, i \in {"1d", "5m"},
        mx \in {1, 50}, e \in {None, Some("key")}}

\* the same handler run to its end: it is one thread that keeps going as
\* long as each upstream call returns
InitLive ==
    /\ Init
    /\ \E in \in LiveInputs : req = in.req /\ ctx = in.ctx

LiveSpec == InitLive /\ [][Next]_vars /\ WF_vars(Next)

----------------------------------------------------------------------------
(* Reading the history *)

Max(a, b) == IF a >= b THEN a ELSE b

\* the events of ticker position p with operation op, in order
EventsOf(p, op) ==
    LET Is(e) == e.t = p /\ e.op = op
    IN  SelectSeq(trace, Is)

\* the upstream calls: requests.get and yahoo_fin's get_data
UpstreamOps == {"get", "get_data"}

SleepOps == {"backoff", "throttle"}

OpsIn(ops) == {k \in Indices(trace) : trace[k].op \in ops}

\* ticker position p ended in frames, or in failed
Kept(p) == EventsOf(p, "keep") # <<>>

Caught(p) == EventsOf(p, "except") # <<>>

Decided(p) == Kept(p) \/ Caught(p)

\* the entry of failed that position p produced
FailureOf(p) == failed[EventsOf(p, "except")[1].n]

\* the request passed validation and went into the ticker loop
InPipeline == pc # "start" /\ response.kind \notin {"schema", "api_key", "validation"}

Done == pc = "done"

Symbols(rows) == {rows[k].ticker : k \in Indices(rows)}

----------------------------------------------------------------------------
(* Failure policy *)

\* C1: in strict mode the first ticker whose fetch strategy fails ends the
\* request at once with 502: no table is produced (even when earlier tickers
\* succeeded), no call or fetch for a later ticker has been or will be made,
\* and nothing happens after that response.
C1_StrictAbort ==
    /\ [](req.strict /\ failed # <<>> =>
            /\ Done
            /\ response.status = 502
            /\ response.kind = "strict_abort"
            /\ response.table = <<>>
            /\ Len(failed) = 1
            /\ response.detail = failed
            /\ Caught(t) /\ failed[1][1] = tickers[t]
            /\ \A k \in Indices(trace) : trace[k].t <= t
            /\ trace[Len(trace)] = Event("respond", 0, 502, FALSE))
    /\ [][~(req.strict /\ failed # <<>>)]_vars

\* C1 witness: strict mode, an earlier ticker succeeded, the next one failed,
\* and a later ticker is left unfetched
C1_Witness ==
    /\ req.strict /\ Done /\ response.status = 502
    /\ frames # <<>>
    /\ failed # <<>>
    /\ t < Len(tickers)

\* C2: lenient mode with at least one success: all tickers are processed, the
\* response is a 200 whose table holds the rows of the successful fetches and
\* no row of a failed ticker, and X-Failed-Tickers lists the failed tickers
\* in request order and is absent iff none failed.
C2_LenientPartialSuccess ==
    (Done /\ InPipeline /\ ~req.strict /\ frames # <<>>) =>
        /\ t = Len(tickers)
        /\ \A p \in Indices(tickers) : Decided(p)
        /\ response.status = 200
        /\ Len(response.table) = Len(Flatten(frames))
        /\ Symbols(response.table) \subseteq {tickers[p] : p \in {q \in Indices(tickers) : Kept(q)}}
        /\ \A k \in Indices(response.table) :
              response.table[k].ticker \notin {tickers[p] : p \in {q \in Indices(tickers) : Caught(q)}}
        /\ LET IsCaught(p) == Caught(p)
               pos == SelectSeq([p \in Indices(tickers) |-> p], IsCaught)
               names == [k \in Indices(pos) |-> tickers[pos[k]]]
           IN  response.failed_tickers = IF pos = <<>> THEN None ELSE Some(names)

\* the normalized tickers are pairwise different symbols
DistinctSymbols == \A p, q \in Indices(tickers) : p # q => tickers[p] # tickers[q]

\* C2 holds of every request whose normalized tickers are pairwise different
LenientPartialSuccessDistinct == DistinctSymbols => C2_LenientPartialSuccess

\* C3: when no ticker succeeded the request ends with 502: in lenient mode
\* after all tickers were processed, carrying all the failures, with no table;
\* a 200 is returned only when at least one ticker succeeded.
C3_AllTickersFailed ==
    (Done /\ InPipeline) =>
        /\ (~req.strict /\ frames = <<>> =>
                /\ response.status = 502
                /\ response.kind = "all_failed"
                /\ response.table = <<>>
                /\ t = Len(tickers)
                /\ \A p \in Indices(tickers) : Caught(p)
                /\ Len(failed) = Len(tickers)
                /\ response.detail = failed)
        /\ (response.status = 200 =>
                /\ frames # <<>>
                /\ \E p \in Indices(tickers) : Kept(p)
                /\ \E k \in OpsIn(UpstreamOps) : trace[k].ok)
        /\ (frames = <<>> => response.status = 502)

\* C3 witness: lenient mode, two tickers, both failed
C3_Witness ==
    /\ Done /\ ~req.strict
    /\ response.kind = "all_failed"
    /\ Len(failed) >= 2

ValidationPrecedesFetching ==
    (Done /\ (\/ ~SchemaValid(req)
              \/ ~RequireApiKeyOk(ctx)
              \/ NormalizeTickers(req.tickers) = <<>>
              \/ Len(NormalizeTickers(req.tickers)) > req.max_tickers
              \/ req.interval \notin ALLOWED_INTERVALS)) =>
        /\ response.status \in {400, 401, 422}
        /\ trace = <<Event("respond", 0, response.status, FALSE)>>
        /\ frames = <<>> /\ failed = <<>>

----------------------------------------------------------------------------
(* Retry and backoff of the chart fetch *)

\* the attempt numbers range(retries) has
AttemptNumbers == 0..(req.retries - 1)

\* C5: per ticker, the attempts of the chart fetch are numbered from 0 within
\* 0..retries-1 (so there are at most retries upstream calls, and each ticker
\* has its full budget whatever earlier tickers spent); only the last attempt
\* made can be a success and it decides the ticker as a chart result; the
\* fetch fails with "chart fetch failed" and the last error iff it reached its
\* loop and every attempt of 0..retries-1 was made and failed.
C5_RetryBound ==
    \A p \in 1..t :
        LET gets == EventsOf(p, "get")
            n == Len(gets)
            exhausted == Caught(p) /\ FailureOf(p)[2].msg = "chart fetch failed"
        IN  /\ \A j \in 1..n : gets[j].n = j - 1
            /\ \A j \in 1..n : gets[j].n \in AttemptNumbers
            /\ n <= Cardinality(AttemptNumbers)
            /\ \A j \in 1..(n - 1) : ~gets[j].ok
            /\ n > 0 => EventsOf(p, "chart") # <<>>
            /\ (n > 0 /\ gets[n].ok) =>
                  /\ Kept(p)
                  /\ sources_used[EventsOf(p, "keep")[1].n] = "chart"
            /\ Decided(p) /\ EventsOf(p, "chart") # <<>> =>
                  /\ exhausted <=>
                        /\ ToUnixUtcMidnightOk(req.start_date)
                        /\ ToUnixUtcMidnightOk(req.end_date)
                        /\ n = Cardinality(AttemptNumbers)
                        /\ \A j \in 1..n : ~gets[j].ok
                  /\ Caught(p) <=> ~(n > 0 /\ gets[n].ok)
            /\ (exhausted /\ p = t) =>
                  /\ FailureOf(p)[2].cause = last_err
                  /\ (n > 0 <=> last_err # "None")

\* C5 witness: the first ticker used up its three attempts, and the second
\* ticker still got three attempts of its own and succeeded on the last
C5_Witness ==
    /\ req.retries = 3
    /\ Len(tickers) = 2
    /\ Caught(1) /\ Len(EventsOf(1, "get")) = 3
    /\ Kept(2) /\ Len(EventsOf(2, "get")) = 3
    /\ EventsOf(2, "get")[3].ok

RECURSIVE SumN(_)
SumN(evs) == IF evs = <<>> THEN 0 ELSE Head(evs).n + SumN(Tail(evs))

\* C6: a failed attempt k with k < retries-1 is followed at once by a sleep of
\* backoff_base_seconds * 2^k and then by attempt k+1; there is no other
\* backoff sleep (none after the final failed attempt, none after a success).
\* A fetch that succeeds on attempt j has slept backoff_base * (2^j - 1) in
\* all, and one that exhausts its retries >= 1 attempts
\* backoff_base * (2^(retries-1) - 1).
C6_BackoffSchedule ==
    /\ \A k \in Indices(trace) :
          /\ trace[k].op = "backoff" =>
                /\ k > 1
                /\ trace[k - 1].op = "get"
                /\ trace[k - 1].t = trace[k].t
                /\ ~trace[k - 1].ok
                /\ trace[k - 1].n < req.retries - 1
                /\ trace[k].n = req.backoff_base_seconds * (2 ^ trace[k - 1].n)
                /\ (k < Len(trace) =>
                       /\ trace[k + 1].op = "get"
                       /\ trace[k + 1].t = trace[k].t
                       /\ trace[k + 1].n = trace[k - 1].n + 1)
          /\ (trace[k].op = "get" /\ ~trace[k].ok /\ trace[k].n < req.retries - 1) =>
                /\ k < Len(trace)
                /\ trace[k + 1].op = "backoff"
          /\ (trace[k].op = "get" /\ (trace[k].ok \/ trace[k].n >= req.retries - 1)) =>
                (k < Len(trace) => trace[k + 1].op # "backoff")
          /\ (trace[k].op = "get" /\ trace[k].n > 0) => trace[k - 1].op = "backoff"
    /\ \A p \in 1..t :
          LET gets == EventsOf(p, "get")
              n == Len(gets)
              slept == SumN(EventsOf(p, "backoff"))
          IN  /\ (n > 0 /\ gets[n].ok) =>
                    slept = req.backoff_base_seconds * (2 ^ (n - 1) - 1)
              /\ (n > 0 /\ n = req.retries /\ ~gets[n].ok /\ Decided(p)) =>
                    slept = req.backoff_base_seconds * (2 ^ (req.retries - 1) - 1)

\* C6 witness: retries = 3, attempts 0 and 1 failed, attempt 2 succeeded, and
\* the fetch slept 5 + 10
C6_Witness ==
    /\ req.retries = 3
    /\ req.backoff_base_seconds = 5
    /\ t >= 1
    /\ Len(EventsOf(1, "get")) = 3
    /\ EventsOf(1, "get")[3].ok
    /\ SumN(EventsOf(1, "backoff")) = 15

----------------------------------------------------------------------------
(* Fetch strategy *)

\* yahoo_fin's get_data returned a usable table for position p
TabularOk(p) ==
    LET gd == EventsOf(p, "get_data") IN gd # <<>> /\ gd[1].ok

\* the first event of position p in the history
FirstEventOf(p) ==
    trace[CHOOSE k \in Indices(trace) :
              trace[k].t = p /\ \A j \in 1..(k - 1) : trace[j].t # p]

\* C7: in auto mode each ticker tries yahoo_fin first and once; the chart
\* fetch is entered only after that attempt failed and then runs its retry
\* loop; after a yahoo_fin success the chart endpoint is never called; the
\* ticker is recorded as failed iff the yahoo_fin attempt and every chart
\* attempt failed; sources_used names the source that produced the frame.
C7_Fallback ==
    req.fetch_mode = "auto" =>
      \A p \in 1..t :
        LET yf == EventsOf(p, "yahoo_fin")
            gd == EventsOf(p, "get_data")
            ch == EventsOf(p, "chart")
            gets == EventsOf(p, "get")
            n == Len(gets)
        IN  /\ Len(yf) <= 1 /\ Len(gd) <= 1 /\ Len(ch) <= 1
            /\ (\E k \in Indices(trace) : trace[k].t = p) =>
                  /\ Len(yf) = 1
                  /\ FirstEventOf(p).op = "yahoo_fin"
            /\ ch # <<>> => ~TabularOk(p)
            /\ n > 0 => ch # <<>>
            /\ TabularOk(p) =>
                  /\ ch = <<>> /\ n = 0
                  /\ Kept(p)
                  /\ sources_used[EventsOf(p, "keep")[1].n] = "yahoo_fin"
            /\ (~TabularOk(p) /\ (pc \in {"loop", "done"} \/ p < t)) => ch # <<>>
            /\ Decided(p) =>
                  /\ Caught(p) <=> (~TabularOk(p) /\ \A j \in 1..n : ~gets[j].ok)
                  /\ (Caught(p) /\ ToUnixUtcMidnightOk(req.start_date)
                               /\ ToUnixUtcMidnightOk(req.end_date)) =>
                        n = Cardinality(AttemptNumbers)
                  /\ Kept(p) =>
                        /\ sources_used[EventsOf(p, "keep")[1].n] =
                              IF TabularOk(p) THEN "yahoo_fin" ELSE "chart"
                        /\ Symbols(frames[EventsOf(p, "keep")[1].n]) \subseteq {tickers[p]}

\* C7 witness: auto mode, yahoo_fin failed for the ticker, the chart fetch
\* failed once and then succeeded
C7_Witness ==
    /\ req.fetch_mode = "auto"
    /\ t >= 1
    /\ EventsOf(1, "get_data") # <<>> /\ ~TabularOk(1)
    /\ Len(EventsOf(1, "get")) = 2
    /\ Kept(1)
    /\ sources_used[1] = "chart"

\* C8: chart mode never calls yahoo_fin; yahoo_fin mode never enters the chart
\* fetch, never sleeps a backoff, and gives each ticker one yahoo_fin attempt
\* whose failure is the ticker's failure.
C8_FixedModes ==
    /\ req.fetch_mode = "chart" => OpsIn({"yahoo_fin", "get_data"}) = {}
    /\ req.fetch_mode = "yahoo_fin" =>
          /\ OpsIn({"chart", "get", "backoff"}) = {}
          /\ \A p \in 1..t :
                /\ Len(EventsOf(p, "yahoo_fin")) <= 1
                /\ Len(EventsOf(p, "get_data")) <= 1
                /\ Decided(p) =>
                      /\ Len(EventsOf(p, "yahoo_fin")) = 1
                      /\ Caught(p) <=> ~TabularOk(p)
                      /\ Kept(p) => sources_used[EventsOf(p, "keep")[1].n] = "yahoo_fin"

\* C8 witness: yahoo_fin mode, the one call for the first ticker failed, the
\* ticker is in failed and the second ticker is being processed
C8_Witness ==
    /\ req.fetch_mode = "yahoo_fin"
    /\ t = 2
    /\ Len(EventsOf(1, "get_data")) = 1 /\ ~TabularOk(1)
    /\ Caught(1)

----------------------------------------------------------------------------
(* Throttling and the order of the output *)

\* C9: with sleep_seconds > 0 every ticker whose processing was decided is
\* followed at once by one sleep of sleep_seconds, whether it was kept or
\* failed, the last ticker and the ticker of a strict abort included, and the
\* response comes after that sleep; the number of throttle sleeps of a request
\* is the number of tickers started.  With sleep_seconds <= 0 there is none.
C9_Throttle ==
    /\ req.sleep_seconds <= 0 => OpsIn({"throttle"}) = {}
    /\ req.sleep_seconds > 0 =>
          /\ \A p \in 1..t :
                LET th == EventsOf(p, "throttle")
                IN  /\ Len(th) = IF Decided(p) THEN 1 ELSE 0
                    /\ \A j \in Indices(th) : th[j].n = req.sleep_seconds
          /\ \A k \in Indices(trace) :
                /\ trace[k].op \in {"keep", "except"} =>
                      /\ k < Len(trace)
                      /\ trace[k + 1].op = "throttle"
                      /\ trace[k + 1].t = trace[k].t
                /\ trace[k].op = "throttle" =>
                      /\ k > 1
                      /\ trace[k - 1].op \in {"keep", "except"}
                      /\ trace[k - 1].t = trace[k].t
                /\ (trace[k].op = "respond" /\ InPipeline) =>
                      /\ k = Len(trace)
                      /\ trace[k - 1].op = "throttle"
                      /\ trace[k - 1].t = t
          /\ (pc \in {"loop", "done"} /\ InPipeline) =>
                Cardinality(OpsIn({"throttle"})) = t

\* C9 witness: a strict abort on the second ticker, two throttle sleeps, the
\* second one between the failure and the 502
C9_Witness ==
    /\ req.sleep_seconds > 0
    /\ Done /\ response.kind = "strict_abort"
    /\ t = 2
    /\ Cardinality(OpsIn({"throttle"})) = 2
    /\ trace[Len(trace) - 2].op = "except"
    /\ trace[Len(trace) - 1].op = "throttle"

\* C10: the table of a 200 response holds exactly the rows of the kept
\* frames, in nondecreasing order of (ticker, datetime), and rows with equal
\* ticker and datetime keep the order they had in the concatenation.
C10_SortedStable ==
    response.status = 200 =>
        LET tb == response.table
            cc == Concat(frames)
        IN  /\ Len(tb) = Len(cc)
            /\ {tb[k] : k \in Indices(tb)} = {cc[k] : k \in Indices(cc)}
            /\ \A i, j \in Indices(tb) : i < j =>
                  /\ \/ StrLess(tb[i].ticker, tb[j].ticker)
                     \/ /\ tb[i].ticker = tb[j].ticker
                        /\ tb[i].datetime <= tb[j].datetime
                  /\ (tb[i].ticker = tb[j].ticker /\ tb[i].datetime = tb[j].datetime) =>
                        tb[i].idx < tb[j].idx

\* C10 witness: a 200 whose table is not in concatenation order and has two
\* rows of one ticker on one day
C10_Witness ==
    /\ response.status = 200
    /\ response.table # Concat(frames)
    /\ \E i, j \in Indices(response.table) :
          /\ i < j
          /\ response.table[i].ticker = response.table[j].ticker
          /\ response.table[i].datetime = response.table[j].datetime
          /\ response.table[i].datetime > 0

----------------------------------------------------------------------------
(* The ticker list as a set *)

\* the rows of a table are unique per (ticker, datetime)
UniquePerDay(rows) ==
    \A i, j \in Indices(rows) :
        (rows[i].ticker = rows[j].ticker /\ rows[i].datetime = rows[j].datetime)
            => i = j

\* C11: the normalized tickers count as a set of symbols: no symbol is
\* fetched successfully twice, and a 200 table built from series that have one
\* row per date has at most one row per (ticker, date) pair.
C11_DistinctTickers ==
    InPipeline =>
        /\ \A p, q \in 1..t :
              (tickers[p] = tickers[q] /\ p # q) => ~(Kept(p) /\ Kept(q))
        /\ (response.status = 200 /\ \A k \in Indices(frames) : UniquePerDay(frames[k]))
              => UniquePerDay(response.table)

----------------------------------------------------------------------------
(* Output columns *)

\* the request carries a batch id after stripping (a generated one when none
\* is given), a portfolio id after stripping
HasBatchId ==
    \/ req.batch_id = None
    \/ req.batch_id[1] = <<>>
    \/ \E k \in Indices(req.batch_id[1]) : ~IsSpace(req.batch_id[1][k])

HasPortfolioId ==
    /\ req.portfolio_id # None
    /\ \E k \in Indices(req.portfolio_id[1]) : ~IsSpace(req.portfolio_id[1][k])

Without(l, x) == LET Other(c) == c # x IN SelectSeq(l, Other)

\* C12: the column list of a 200 response is [batch_id?, portfolio_id?,
\* datetime, ticker, open, high, low, close, adjclose?, volume, openinterest,
\* ret?], with adjclose iff include_adjclose_column and ret iff
\* include_returns; no column occurs twice; and the list with a portfolio id
\* is the list without it plus portfolio_id.
C12_ColumnOrder ==
    response.status = 200 =>
        LET cs == response.columns
        IN  /\ cs = (IF HasBatchId THEN <<"batch_id">> ELSE <<>>)
                    \o (IF HasPortfolioId THEN <<"portfolio_id">> ELSE <<>>)
                    \o <<"datetime", "ticker", "open", "high", "low", "close">>
                    \o (IF req.include_adjclose_column THEN <<"adjclose">> ELSE <<>>)
                    \o <<"volume", "openinterest">>
                    \o (IF req.include_returns THEN <<"ret">> ELSE <<>>)
            /\ \A i, j \in Indices(cs) : cs[i] = cs[j] => i = j
            /\ Without(cs, "portfolio_id") =
                  OutCols([req EXCEPT !.portfolio_id = None], MergedColumns(req))

\* C12 witness: batch id and portfolio id given, adjclose and ret requested
C12_Witness ==
    /\ response.status = 200
    /\ req.batch_id = Some(<<98>>)
    /\ req.portfolio_id = Some(<<112>>)
    /\ Len(response.columns) = 12

----------------------------------------------------------------------------
(* Sequential processing *)

\* the place in the history of the first event of position p with an
\* operation of ops, 0 when there is none
FirstAt(p, ops) ==
    LET at == {k \in Indices(trace) : trace[k].t = p /\ trace[k].op \in ops}
    IN  IF at = {} THEN 0 ELSE CHOOSE k \in at : \A j \in at : k <= j

\* C13: the history runs ticker by ticker in request order: no event of a
\* ticker comes after an event of a later one; an upstream call for ticker
\* p+1 comes only after ticker p was decided (kept, or failed with its
\* attempts used up) and its throttle sleep was taken; frames and failed hold
\* their entries in request order.
C13_Sequential ==
    /\ \A k \in Indices(trace) :
          /\ trace[k].t \in 0..t
          /\ trace[k].t = 0 => k = Len(trace)
          /\ (k > 1 /\ trace[k].t # 0) => trace[k - 1].t <= trace[k].t
    /\ \A p \in 2..t :
          LET call == FirstAt(p, UpstreamOps)
              decided == FirstAt(p - 1, {"keep", "except"})
              slept == FirstAt(p - 1, {"throttle"})
          IN  /\ Decided(p - 1)
              /\ call # 0 =>
                    /\ decided < call
                    /\ req.sleep_seconds > 0 => (slept # 0 /\ decided < slept /\ slept < call)
    /\ \A p \in 1..t :
          /\ Kept(p) =>
                LET n == EventsOf(p, "keep")[1].n
                IN  /\ n = Cardinality({q \in 1..p : Kept(q)})
                    /\ n <= Len(frames)
                    /\ Symbols(frames[n]) \subseteq {tickers[p]}
          /\ Caught(p) =>
                LET n == EventsOf(p, "except")[1].n
                IN  /\ n = Cardinality({q \in 1..p : Caught(q)})
                    /\ n <= Len(failed)
                    /\ failed[n][1] = tickers[p]
    /\ Len(frames) = Cardinality({q \in 1..t : Kept(q)})
    /\ Len(failed) = Cardinality({q \in 1..t : Caught(q)})

\* C13 witness: three tickers; the first and the third failed, the second
\* was kept, each after its own upstream calls
C13_Witness ==
    /\ t = 3
    /\ req.sleep_seconds > 0
    /\ Caught(1) /\ Kept(2) /\ Caught(3)
    /\ \A p \in 1..3 : FirstAt(p, UpstreamOps) # 0
    /\ tickers[1] # tickers[3]

----------------------------------------------------------------------------
(* The chart adapter's rows *)

\* C14: every row of a series that a successful chart fetch returned has a
\* close that is a number: rows whose upstream close is null or is not a
\* number are dropped.  (Read on requests without close substitution, where
\* the frame's close is the adapter's.)
C14_ChartRowsHaveClose ==
    ~req.use_adjclose_as_close =>
        \A k \in Indices(frames) :
            sources_used[k] = "chart" =>
                \A j \in Indices(frames[k]) : frames[k][j].close # None

\* what does hold of the adapter: a row is dropped iff its upstream close is
\* null, so the rows of a feed of numbers and nulls all have a close; open and
\* adjclose are numbers or null and volume is a number
ChartRowsOfNumbersHaveClose ==
    /\ (~req.use_adjclose_as_close /\ ctx.feed = "numbers") =>
          \A k \in Indices(frames) :
              \A j \in Indices(frames[k]) : frames[k][j].close # None
    /\ \A k \in Indices(frames) : \A j \in Indices(frames[k]) :
          /\ Len(frames[k][j].open) <= 1
          /\ Len(frames[k][j].adjclose) <= 1
          /\ frames[k][j].volume \in Nat

----------------------------------------------------------------------------
(* Close substitution *)

\* row out of a processed frame comes from row raw of the fetched frame
SameBar(out, raw) ==
    /\ out.datetime = raw.datetime
    /\ out.ticker = raw.ticker
    /\ out.open = raw.open
    /\ out.adjclose = raw.adjclose
    /\ out.volume = raw.volume

\* C15: the close of an output row is the row's adjusted close when
\* use_adjclose_as_close is set and the row has an adjusted close, and the
\* source's raw close otherwise.
C15_CloseSubstitution ==
    \A k \in Indices(frames) :
        \A j \in Indices(frames[k]) :
            \E i \in Indices(results[k]) :
                /\ SameBar(frames[k][j], results[k][i])
                /\ frames[k][j].close =
                      IF req.use_adjclose_as_close /\ results[k][i].adjclose # None
                      THEN results[k][i].adjclose
                      ELSE results[k][i].close

\* what the handler does: with use_adjclose_as_close set the close is the
\* adjclose column's value, null included
CloseIsAdjcloseColumn ==
    \A k \in Indices(frames) :
        \A j \in Indices(frames[k]) :
            \E i \in Indices(results[k]) :
                /\ SameBar(frames[k][j], results[k][i])
                /\ frames[k][j].close =
                      IF req.use_adjclose_as_close
                      THEN results[k][i].adjclose
                      ELSE results[k][i].close

----------------------------------------------------------------------------
(* Returns *)

\* close[i] / close[i-1] - 1 of two adjacent rows, null when a close is null
ReturnOver(prev, row) ==
    IF row.close = None \/ prev.close = None THEN None
    ELSE Some(<<row.close[1] - prev.close[1], prev.close[1]>>)

ReturnsFollowRows(df) ==
    /\ \A j \in 1..(Len(df) - 1) : df[j].datetime <= df[j + 1].datetime
    /\ \A j \in Indices(df) :
          /\ j = 1 => df[j].ret = None
          /\ j > 1 => df[j].ret = ReturnOver(df[j - 1], df[j])

\* C16: with include_returns each ticker's frame is in ascending date order,
\* its first row has a null return, and every later row's return is
\* close[i]/close[i-1] - 1 over the output closes of that row and of the row
\* before it in the same frame.
C16_Returns ==
    req.include_returns =>
        \A k \in Indices(frames) :
            /\ Cardinality(Symbols(frames[k])) <= 1
            /\ ReturnsFollowRows(frames[k])

\* what holds: the claim for frames whose output closes are all numbers, and
\* for every frame when pct_change does not fill nulls forward
ReturnsOverNumbers ==
    req.include_returns =>
        \A k \in Indices(frames) :
            /\ Cardinality(Symbols(frames[k])) <= 1
            /\ ((\A j \in Indices(frames[k]) : frames[k][j].close # None)
                    \/ ~ctx.pct_change_pads)
                  => ReturnsFollowRows(frames[k])

----------------------------------------------------------------------------
(* Row conservation *)

RECURSIVE SumLen(_)
SumLen(fs) == IF fs = <<>> THEN 0 ELSE Len(Head(fs)) + SumLen(Tail(fs))

\* C17: the table of a 200 response has as many rows as the fetches of the
\* kept tickers returned together: every processed frame has the rows of its
\* fetched frame, and the table has each row of the concatenation once.
C17_RowConservation ==
    /\ Len(results) = Len(frames)
    /\ \A k \in Indices(frames) :
          /\ Len(frames[k]) = Len(results[k])
          /\ \A i \in Indices(results[k]) :
                Cardinality({j \in Indices(frames[k]) : SameBar(frames[k][j], results[k][i])})
                    = Cardinality({j \in Indices(results[k]) : SameBar(results[k][j], results[k][i])})
    /\ response.status = 200 =>
          /\ Len(response.table) = SumLen(results)
          /\ {response.table[k].idx : k \in Indices(response.table)}
                = 0..(SumLen(results) - 1)

\* C17 witness: a 200 over two kept frames, one of which has a row whose
\* output close is null
C17_Witness ==
    /\ response.status = 200
    /\ Len(results) = 2
    /\ Len(response.table) = 4
    /\ \E k \in Indices(response.table) : response.table[k].close = None

----------------------------------------------------------------------------
(* Termination *)

UpstreamCalls == Cardinality(OpsIn(UpstreamOps))

\* C18 as stated: every request ends in exactly one of 200, 400, 401 and 502,
\* after at most len(tickers) * (1 + retries) upstream calls.
C18_TerminatesWithin ==
    /\ <>Done
    /\ [][~Done]_vars
    /\ [](Done => response.status \in {200, 400, 401, 502})
    /\ [](UpstreamCalls <= Len(tickers) * (1 + req.retries))

\* C18, amended: every request ends in exactly one of 200, 400, 401, 422 (the
\* request model's rejection) and 502, after at most
\* len(tickers) * (1 + max(retries, 0)) upstream calls.
C18_Terminates ==
    /\ <>Done
    /\ [][~Done]_vars
    /\ [](Done => response.status \in {200, 400, 401, 422, 502})
    /\ [](UpstreamCalls <= Len(tickers) * (1 + Max(req.retries, 0)))

\* C18 witness: retries = -1 in auto mode: two tickers done with one
\* yahoo_fin call each
C18_Witness ==
    /\ Done
    /\ req.retries < 0
    /\ Len(tickers) = 2
    /\ UpstreamCalls = 2


\* the bound on upstream calls as a state predicate, for every retry count
UpstreamCallBound ==
    UpstreamCalls <= Len(tickers) * (1 + Max(req.retries, 0))

----------------------------------------------------------------------------
(* Requests without attempts, requests with malformed dates *)

DatesParse ==
    ToUnixUtcMidnightOk(req.start_date) /\ ToUnixUtcMidnightOk(req.end_date)

\* C19: with retries <= 0 the chart fetch makes no upstream call and sleeps
\* no backoff, and every ticker that enters it fails, with "chart fetch
\* failed" and no last error when the dates parse; so in chart mode every
\* ticker fails with the upstream never contacted, and in auto mode a ticker
\* whose yahoo_fin attempt failed fails without a chart call.
C19_NoAttempts ==
    req.retries <= 0 =>
        /\ OpsIn({"get", "backoff"}) = {}
        /\ \A p \in 1..t :
              /\ EventsOf(p, "chart") # <<>> =>
                    /\ Caught(p)
                    /\ DatesParse =>
                          FailureOf(p)[2] = Failure("chart fetch failed", "None")
              /\ (req.fetch_mode = "auto" /\ Decided(p)) =>
                    (Caught(p) <=> ~TabularOk(p))
        /\ req.fetch_mode = "chart" =>
              /\ UpstreamCalls = 0
              /\ frames = <<>>
              /\ \A p \in 1..t : Decided(p) => Caught(p)
              /\ (Done /\ InPipeline) => response.status = 502

\* C19 witness: auto mode with retries <= 0: the first ticker came from
\* yahoo_fin, the second failed in the chart fetch without a call
C19_Witness ==
    /\ req.retries <= 0
    /\ req.fetch_mode = "auto"
    /\ Done
    /\ Kept(1)
    /\ Caught(2)
    /\ FailureOf(2)[2].msg = "chart fetch failed"
    /\ OpsIn({"get"}) = {}


\* "2024/01/05" and "01-05-2024" are in neither accepted format
MalformedDates == {SlashYmdDate, DashMdyDate}

\* C20: a request whose start or end date is in neither accepted format is
\* not rejected by validation; in chart mode every ticker fails inside its
\* fetch before the retry loop, with no upstream call and no backoff sleep, as
\* an ordinary entry of failed; the request ends with 502, after the first
\* ticker in strict mode, after all tickers and their throttle sleeps
\* otherwise.
C20_MalformedDates ==
    ((req.start_date \in MalformedDates \/ req.end_date \in MalformedDates)
        /\ pc # "start" /\ ValidationStatus(
          [req EXCEPT !.start_date = IsoDate, !.end_date = IsoDate], ctx) = 0) =>
        /\ InPipeline
        /\ response.status # 400
        /\ req.fetch_mode = "chart" =>
              /\ OpsIn(UpstreamOps \cup {"backoff"}) = {}
              /\ frames = <<>>
              /\ \A p \in 1..t :
                    EventsOf(p, "chart") # <<>> =>
                        /\ Caught(p)
                        /\ FailureOf(p) =
                              <<tickers[p], Failure("time data does not match format", "")>>
              /\ Done =>
                    /\ response.status = 502
                    /\ Len(failed) = t
                    /\ req.strict => (t = 1 /\ response.kind = "strict_abort")
                    /\ ~req.strict =>
                          /\ t = Len(tickers)
                          /\ response.kind = "all_failed"
                          /\ response.detail = failed
                    /\ req.sleep_seconds > 0 =>
                          /\ Cardinality(OpsIn({"throttle"})) = t
                          /\ trace[Len(trace) - 1].op = "throttle"

\* C20 witness: lenient chart mode, a malformed end date, both tickers failed
\* and slept for, then the 502
C20_Witness ==
    /\ req.start_date \notin MalformedDates
    /\ req.end_date \in MalformedDates
    /\ req.fetch_mode = "chart"
    /\ ~req.strict
    /\ Done
    /\ response.status = 502
    /\ Len(failed) = 2
    /\ Cardinality(OpsIn({"throttle"})) = 2

====
